---- MODULE Spec2Model ----
(***************************************************************************)
(* State-machine model of the rpos-system server (src/server.js) and its   *)
(* SQLite store (src/db.js).                                               *)
(*                                                                         *)
(* Every route handler is an async function: it runs on the event loop up  *)
(* to an `await` of a store operation, the store operation runs later, and *)
(* the handler's continuation runs after that.  Handlers of different      *)
(* requests interleave at these awaits.  An action of the model is one     *)
(* such step of one request.  A step that only receives the request is     *)
(* folded into the first store operation it awaits, and the response that  *)
(* follows the last store operation is folded into that operation: neither *)
(* reads nor writes anything another request can see.                      *)
(*                                                                         *)
(* The users, products and transactions tables and the uploads directory   *)
(* are the shared state.  Store operations fail only where the schema      *)
(* makes them fail (PRIMARY KEY, NOT NULL); disk and connection faults are *)
(* not modelled.                                                           *)
(***************************************************************************)
EXTENDS Integers, Sequences, FiniteSets, TLC

VARIABLES
  users,         \* users table: username -> [password, email]
  products,      \* products table: id -> row
  files,         \* names of the files in the uploads directory
  uploads,       \* number of files multer has stored so far (names them)
  transactions,  \* transactions table: id -> row
  clock,         \* Date.now()
  reqs,          \* request slot -> the handler's locals and position
  served,        \* number of requests the server has accepted
  resp,          \* the latest response sent
  probe          \* identity resolution of one request, per route

vars ==
  <<users, products, files, uploads, transactions, clock, reqs, served, resp, probe>>

(***************************************************************************)
(* Bounds of the model.                                                    *)
(***************************************************************************)
MaxReq == 2        \* requests in flight at once
MaxClock == 2      \* values Date.now() takes
MaxUploads == 2    \* files multer stores
MaxServed == 3     \* requests accepted in a run

(***************************************************************************)
(* JavaScript values.  undefined and null are tokens distinct from every   *)
(* string of the model, "null" and the empty string included.              *)
(***************************************************************************)
Undefined == "<undefined>"
Null == "<null>"

\* Truthiness of a string-or-absent value, as `||`, `&&`, `!` and `if` test it.
Truthy(v) == v \notin {Undefined, Null, ""}

\* a || b
Or(a, b) == IF Truthy(a) THEN a ELSE b

\* String(v)
String(v) ==
  IF v = Null THEN "null"
  ELSE IF v = Undefined THEN "undefined"
  ELSE v

\* A row that a SELECT did not find (db.get resolves undefined).
NoRow == [undefined |-> TRUE]

(***************************************************************************)
(* Request inputs.                                                         *)
(***************************************************************************)
\* Values of ?username= and of the x-username header.
ParamValues == {Undefined, "", "alice", "Alice", "null"}

\* Cookie headers: absent, or the text split at ';' and at the first '=' of
\* each part, which gives the name as written (a part after "; " starts with
\* a blank) and the raw value.  An empty header has no parts.
NoCookieHeader == [defined |-> FALSE, parts |-> <<>>]

CookieHeader(parts) == [defined |-> TRUE, parts |-> parts]

CookieHeaders ==
  { NoCookieHeader,
    CookieHeader(<<>>),
    CookieHeader(<< <<"username", "alice">> >>),
    CookieHeader(<< <<"theme", "dark">>, <<" username", "al%69ce">> >>),
    CookieHeader(<< <<"username", "">> >>),
    CookieHeader(<< <<"username", "null">>, <<" theme", "dark">> >>) }

\* String.prototype.trim on the cookie names of the model.
Trim(s) ==
  IF s = " username" THEN "username"
  ELSE IF s = " theme" THEN "theme"
  ELSE s

\* decodeURIComponent on the cookie values of the model ("%69" is "i").
DecodeURIComponent(s) == IF s = "al%69ce" THEN "alice" ELSE s

\* parseCookies: the object name -> decoded value; a later cookie of the
\* same name replaces an earlier one.
RECURSIVE ParseList(_)
ParseList(parts) ==
  IF parts = <<>> THEN <<>>
  ELSE LET n == Len(parts)
           rest == ParseList(SubSeq(parts, 1, n - 1))
           name == Trim(parts[n][1])
           value == DecodeURIComponent(parts[n][2])
       IN  [k \in DOMAIN rest \cup {name} |-> IF k = name THEN value ELSE rest[k]]

parseCookies(cookieHeader) ==
  IF ~cookieHeader.defined \/ cookieHeader.parts = <<>> THEN <<>>
  ELSE ParseList(cookieHeader.parts)

\* obj.name of a parsed object
Field(obj, name) == IF name \in DOMAIN obj THEN obj[name] ELSE Undefined

(***************************************************************************)
(* Identity resolution, route by route (each route has its own copy of the *)
(* expression).  req.query is always an object, so `req.query &&           *)
(* req.query.username` is req.query.username.                              *)
(***************************************************************************)
\* GET /products
usernameOfListProducts(query, header, cookieHeader) ==
  LET fromQuery == query
      fromHeader == header
      cookies == parseCookies(cookieHeader)
      fromCookie == Field(cookies, "username")
  IN  Or(Or(Or(fromQuery, fromHeader), fromCookie), Null)

\* POST /products
ownerOfCreateProduct(query, header, cookieHeader) ==
  Or(Or(Or(query, header), Field(parseCookies(cookieHeader), "username")), Null)

\* DELETE /products/:id
ownerCandidateOfDeleteWrongOrder(query, header, cookieHeader) ==
  Or(Or(Or(header, query), Field(parseCookies(cookieHeader), "username")), Null)

ownerCandidateOfDelete(query, header, cookieHeader) ==
  Or(Or(Or(query, header), Field(parseCookies(cookieHeader), "username")), Null)

\* GET /transactions
usernameOfListTransactions(query, header, cookieHeader) ==
  LET fromQuery == query
      fromHeader == header
      cookies == parseCookies(cookieHeader)
      fromCookie == Field(cookies, "username")
  IN  Or(Or(Or(fromQuery, fromHeader), fromCookie), Null)

\* POST /transactions
ownerOfCreateTransaction(query, header, cookieHeader) ==
  Or(Or(Or(query, header), Field(parseCookies(cookieHeader), "username")), Null)

\* The identity a route resolves for a request.
Resolve(route, query, header, cookieHeader) ==
  CASE route = "GET /products" -> usernameOfListProducts(query, header, cookieHeader)
    [] route = "POST /products" -> ownerOfCreateProduct(query, header, cookieHeader)
    [] route = "DELETE /products/:id" -> ownerCandidateOfDelete(query, header, cookieHeader)
    [] route = "GET /transactions" -> usernameOfListTransactions(query, header, cookieHeader)
    [] route = "POST /transactions" -> ownerOfCreateTransaction(query, header, cookieHeader)

IdentityRoutes ==
  {"GET /products", "POST /products", "DELETE /products/:id",
   "GET /transactions", "POST /transactions"}

\* The (query, header, cookie) triples the handlers of the store models are
\* driven with: no source, each source alone, and sources that disagree.
Anonymous == [query |-> Undefined, header |-> Undefined, cookie |-> NoCookieHeader]

Callers ==
  { Anonymous,
    [query |-> "null", header |-> "alice", cookie |-> NoCookieHeader],
    [query |-> Undefined, header |-> "Alice", cookie |-> NoCookieHeader],
    [query |-> "", header |-> Undefined,
     cookie |-> CookieHeader(<< <<"username", "alice">> >>)] }

(***************************************************************************)
(* Initial state: empty tables (CREATE TABLE IF NOT EXISTS on a fresh      *)
(* database file), an empty uploads directory, no request in flight.       *)
(***************************************************************************)
Idle == [kind |-> "idle"]

NoResponse == [route |-> "none"]

NoProbe == [route |-> "none"]

Slots == 1..MaxReq

Init ==
  /\ users = <<>>
  /\ products = <<>>
  /\ files = {}
  /\ uploads = 0
  /\ transactions = <<>>
  /\ clock = 1
  /\ reqs = [r \in Slots |-> Idle]
  /\ served = 0
  /\ resp = NoResponse
  /\ probe = NoProbe

\* A table with one more row / without a row.
Insert(table, id, row) ==
  [k \in DOMAIN table \cup {id} |-> IF k = id THEN row ELSE table[k]]

Remove(table, id) == [k \in DOMAIN table \ {id} |-> table[k]]

\* db.get('SELECT * FROM <table> WHERE <key> = ?')
Select(table, id) == IF id \in DOMAIN table THEN table[id] ELSE NoRow

\* The server accepts one more request.
Accept == served < MaxServed /\ served' = served + 1

\* A request is served in the first free slot (slots are interchangeable).
Free(r) == reqs[r] = Idle /\ \A s \in Slots : s < r => reqs[s] # Idle

\* Time passes.
Tick ==
  /\ clock < MaxClock
  /\ clock' = clock + 1
  /\ UNCHANGED <<users, products, files, uploads, transactions, reqs, served, resp, probe>>

(***************************************************************************)
(* Catalog: products and their image files.                                *)
(***************************************************************************)
\* multer names a stored file after the time and the original name; the
\* model names the n-th stored file FileNames[n].
FileNames == <<"1-a.png", "2-b.png", "3-c.png", "4-d.png">>

\* Form fields arrive as strings; a field the form does not send is undefined.
CreateBodies ==
  { [title |-> Undefined, description |-> "green", price |-> "9", stock |-> Undefined] }

\* Update requests: the form fields and whether a new image comes with them.
StockOnly ==
  [title |-> Undefined, description |-> Undefined, price |-> Undefined, stock |-> "7"]

UpdateForms ==
  { [body |-> StockOnly, hasFile |-> FALSE],
    [body |-> [title |-> "mate", description |-> "black", price |-> "12",
               stock |-> Undefined],
     hasFile |-> TRUE] }

\* The stock column has INTEGER affinity: text that is a number is stored as
\* the number.
IntegerAffinity(text) ==
  CASE text = "0" -> 0
    [] text = "1" -> 1
    [] text = "7" -> 7

\* stock || 0
StockOrZero(stock) == IF Truthy(stock) THEN IntegerAffinity(stock) ELSE 0

ProductIds == 1..MaxClock

\* db.createProduct: INSERT; the PRIMARY KEY rejects an id already stored.
createProduct(table, id, title, description, price, stock, image, owner) ==
  IF id \in DOMAIN table THEN table
  ELSE Insert(table, id, [id |-> id, title |-> title, description |-> description,
                          price |-> price, stock |-> stock, image |-> image,
                          owner |-> owner])

\* POST /products.  multer stores the uploaded file, the handler takes
\* Date.now() (now) as the id and awaits the INSERT, which runs at clock >= now.
CreateProduct(body, hasFile, caller, now) ==
  /\ Accept
  /\ hasFile => uploads < MaxUploads
  /\ LET image == IF hasFile THEN FileNames[uploads + 1] ELSE Null
         owner == ownerOfCreateProduct(caller.query, caller.header, caller.cookie)
         productId == now
     IN  /\ files' = IF hasFile THEN files \cup {image} ELSE files
         /\ uploads' = IF hasFile THEN uploads + 1 ELSE uploads
         /\ products' = createProduct(products, productId,
                                      Or(body.title, "Untitled"),
                                      Or(body.description, ""),
                                      Or(body.price, ""),
                                      StockOrZero(body.stock),
                                      image, owner)
         /\ resp' = [route |-> "POST /products",
                     status |-> IF productId \in DOMAIN products THEN 500 ELSE 302]
  /\ UNCHANGED <<users, transactions, clock, reqs, probe>>

\* fs.existsSync(path) && fs.unlinkSync(path), errors ignored.
Unlink(dir, name) == dir \ {name}

\* db.updateProduct: UPDATE ... WHERE id = ?.  It resolves whether or not a
\* row matched.
updateProduct(table, id, title, description, price, stock, image) ==
  IF id \in DOMAIN table
  THEN [table EXCEPT ![id] = [@ EXCEPT !.title = title, !.description = description,
                                       !.price = price, !.stock = stock,
                                       !.image = image]]
  ELSE table

\* db.deleteProduct: DELETE ... WHERE id = ?.  It resolves whether or not a
\* row matched.
deleteProduct(table, id) == Remove(table, id)

\* sqlite's count of the rows a statement with WHERE id = ? changed
\* (this.changes in the callback, which neither store function reads).
Changes(table, id) == IF id \in DOMAIN table THEN 1 ELSE 0

\* POST /products/:id, up to the await of getProductById: multer stores the
\* uploaded file, then SELECT runs.
UpdateGet(r, id, form) ==
  /\ Free(r)
  /\ Accept
  /\ form.hasFile => uploads < MaxUploads
  /\ files' = IF form.hasFile THEN files \cup {FileNames[uploads + 1]} ELSE files
  /\ uploads' = IF form.hasFile THEN uploads + 1 ELSE uploads
  /\ reqs' = [reqs EXCEPT ![r] =
       [kind |-> "update", pc |-> "merge", id |-> id, body |-> form.body,
        file |-> IF form.hasFile THEN FileNames[uploads + 1] ELSE Undefined,
        product |-> Select(products, id)]]
  /\ UNCHANGED <<users, products, transactions, clock, resp, probe>>

\* The fields POST /products/:id passes to updateProduct.
MergedFields(product, body, newImage) ==
  [title |-> IF body.title # Undefined THEN body.title ELSE product.title,
   description |-> IF body.description # Undefined THEN body.description
                   ELSE product.description,
   price |-> IF body.price # Undefined THEN body.price ELSE product.price,
   stock |-> IF body.stock # Undefined THEN IntegerAffinity(body.stock)
             ELSE product.stock,
   image |-> newImage]

\* POST /products/:id, from the row to the await of updateProduct: 404, or
\* drop the previous image file when a new one came and merge the fields.
UpdateMerge(r) ==
  /\ reqs[r].kind = "update"
  /\ reqs[r].pc = "merge"
  /\ LET q == reqs[r]
         product == q.product
     IN  IF product = NoRow
         THEN /\ reqs' = [reqs EXCEPT ![r] = Idle]
              /\ resp' = [route |-> "POST /products/:id", id |-> q.id, status |-> 404]
              /\ files' = files
         ELSE LET newImage == IF q.file # Undefined THEN q.file ELSE product.image
              IN  /\ files' = IF q.file # Undefined /\ Truthy(product.image)
                              THEN Unlink(files, product.image)
                              ELSE files
                  /\ reqs' = [reqs EXCEPT ![r] =
                       [kind |-> "update", pc |-> "updateProduct", id |-> q.id,
                        body |-> q.body,
                        args |-> MergedFields(product, q.body, newImage)]]
                  /\ resp' = resp
  /\ UNCHANGED <<users, products, uploads, transactions, clock, probe, served>>

\* POST /products/:id: UPDATE runs and the handler redirects to the inventory.
UpdateRun(r) ==
  /\ reqs[r].kind = "update"
  /\ reqs[r].pc = "updateProduct"
  /\ LET q == reqs[r]
     IN  /\ products' = updateProduct(products, q.id, q.args.title, q.args.description,
                                      q.args.price, q.args.stock, q.args.image)
         /\ resp' = [route |-> "POST /products/:id", id |-> q.id, status |-> 302,
                     changes |-> Changes(products, q.id)]
  /\ reqs' = [reqs EXCEPT ![r] = Idle]
  /\ UNCHANGED <<users, files, uploads, transactions, clock, probe, served>>

\* product.owner && String(product.owner) !== String(ownerCandidate)
Forbidden(product, ownerCandidate) ==
  Truthy(product.owner) /\ String(product.owner) # String(ownerCandidate)

\* DELETE /products/:id, up to the await of getProductById.
DeleteGet(r, id, caller) ==
  /\ Free(r)
  /\ Accept
  /\ reqs' = [reqs EXCEPT ![r] =
       [kind |-> "delete", pc |-> "check", id |-> id,
        ownerCandidate |-> ownerCandidateOfDelete(caller.query, caller.header,
                                                  caller.cookie),
        product |-> Select(products, id)]]
  /\ UNCHANGED <<users, products, files, uploads, transactions, clock, resp, probe>>

\* DELETE /products/:id, from the row to the await of deleteProduct: 404,
\* 403, or drop the image file.
DeleteCheck(r) ==
  /\ reqs[r].kind = "delete"
  /\ reqs[r].pc = "check"
  /\ LET q == reqs[r]
         product == q.product
         answer(status) ==
           [route |-> "DELETE /products/:id", id |-> q.id, status |-> status]
     IN  IF product = NoRow
         THEN /\ reqs' = [reqs EXCEPT ![r] = Idle]
              /\ resp' = answer(404)
              /\ files' = files
         ELSE IF Forbidden(product, q.ownerCandidate)
         THEN /\ reqs' = [reqs EXCEPT ![r] = Idle]
              /\ resp' = answer(403)
              /\ files' = files
         ELSE /\ files' = IF Truthy(product.image) THEN Unlink(files, product.image)
                          ELSE files
              /\ reqs' = [reqs EXCEPT ![r] =
                   [kind |-> "delete", pc |-> "deleteProduct", id |-> q.id]]
              /\ resp' = resp
  /\ UNCHANGED <<users, products, uploads, transactions, clock, probe, served>>

\* DELETE /products/:id: DELETE runs and the handler answers {ok: true}.
DeleteRun(r) ==
  /\ reqs[r].kind = "delete"
  /\ reqs[r].pc = "deleteProduct"
  /\ LET q == reqs[r]
     IN  /\ products' = deleteProduct(products, q.id)
         /\ resp' = [route |-> "DELETE /products/:id", id |-> q.id, status |-> 200,
                     changes |-> Changes(products, q.id)]
  /\ reqs' = [reqs EXCEPT ![r] = Idle]
  /\ UNCHANGED <<users, files, uploads, transactions, clock, probe, served>>

NextCatalog ==
  \/ Tick
  \/ \E body \in CreateBodies, hasFile \in BOOLEAN, caller \in Callers, now \in 1..clock :
       CreateProduct(body, hasFile, caller, now)
  \/ \E r \in Slots, id \in ProductIds, form \in UpdateForms : UpdateGet(r, id, form)
  \/ \E r \in Slots : UpdateMerge(r)
  \/ \E r \in Slots : UpdateRun(r)
  \/ \E r \in Slots, id \in ProductIds, caller \in Callers : DeleteGet(r, id, caller)
  \/ \E r \in Slots : DeleteCheck(r)
  \/ \E r \in Slots : DeleteRun(r)

SpecCatalog == Init /\ [][NextCatalog]_vars

\* The position of the handler in slot r.
Pc(r) == IF reqs[r] = Idle THEN "idle" ELSE reqs[r].pc

\* C1: a DELETE of a product that has an owner, by a request whose resolved
\* identity is not that owner (no identity included), is answered 403 and
\* leaves the product row and the uploads directory as they were.  Stated
\* of the step in which the handler checks the row it read.
C1_OtherIdentityIsForbidden ==
  [][\A r \in Slots :
       ( /\ reqs[r].kind = "delete"
         /\ reqs[r].pc = "check"
         /\ reqs'[r] # reqs[r]
         /\ reqs[r].product # NoRow
         /\ reqs[r].product.owner # Null
         /\ reqs[r].product.owner # reqs[r].ownerCandidate )
       => ( /\ reqs'[r] = Idle
            /\ resp'.route = "DELETE /products/:id"
            /\ resp'.status = 403
            /\ products' = products
            /\ files' = files )]_vars

\* C2: a DELETE of a product whose owner is null is not refused whatever
\* identity the request resolves to, and when its DELETE statement has run
\* the answer is {ok: true}, the row is gone and the image file the row
\* named is no longer in the uploads directory.
C2_UnownedDeleteRemovesRowAndImage ==
  [][\A r \in Slots :
       /\ ( /\ reqs[r].kind = "delete"
            /\ reqs[r].pc = "check"
            /\ reqs'[r] # reqs[r]
            /\ reqs[r].product # NoRow
            /\ reqs[r].product.owner = Null )
          => reqs'[r] # Idle
       /\ ( /\ reqs[r].kind = "delete"
            /\ reqs[r].pc = "deleteProduct"
            /\ reqs'[r] # reqs[r]
            /\ reqs[r].id \in DOMAIN products
            /\ products[reqs[r].id].owner = Null )
          => ( /\ resp'.status = 200
               /\ reqs[r].id \notin DOMAIN products'
               /\ Truthy(products[reqs[r].id].image)
                    => products[reqs[r].id].image \notin files' )]_vars

\* C6: an update that supplies only stock, on a product that exists, sets
\* the stored stock to the supplied value and changes nothing else of the
\* row, nor the uploads directory.
C6_StockOnlyUpdateChangesOnlyStock ==
  [][\A r \in Slots :
       ( /\ reqs[r].kind = "update"
         /\ reqs[r].pc = "updateProduct"
         /\ reqs'[r] # reqs[r]
         /\ reqs[r].body = StockOnly
         /\ reqs[r].id \in DOMAIN products )
       => ( /\ products' = [products EXCEPT ![reqs[r].id].stock = 7]
            /\ files' = files )]_vars

\* C9: an update or a delete whose statement finds no row for the id is
\* answered 404; no such request is answered with success.
C9_WriteOfAbsentRowIsNotFound ==
  ( /\ resp.route \in {"POST /products/:id", "DELETE /products/:id"}
    /\ resp.status \in {200, 302} )
  => resp.changes = 1

(***************************************************************************)
(* Ledger: transactions.                                                   *)
(***************************************************************************)
\* Values in the transactions table: SQL NULL, and the text JSON.stringify
\* writes, which JSON.parse reads back.
SqlNull == [null |-> TRUE]

JSONstringify(value) == [json |-> value]

JSONparse(text) == text.json

\* A request body's items and location: absent, or the value.
Missing == [defined |-> FALSE]

Given(value) == [defined |-> TRUE, value |-> value]

\* Line items as the JSON body gives them: numbers, fields optional.
ExampleItems == << [price |-> 10, qty |-> 2], [price |-> 5, qty |-> 1] >>

TxBodies ==
  { [items |-> Given(ExampleItems), paymentMethod |-> Undefined,
     proofUploaded |-> FALSE, proofFilename |-> Undefined, location |-> Missing,
     timestamp |-> Undefined],
    [items |-> Given(<< [price |-> 10, qty |-> 0] >>), paymentMethod |-> Undefined,
     proofUploaded |-> FALSE, proofFilename |-> Undefined, location |-> Missing,
     timestamp |-> Undefined],
    [items |-> Given(<< [price |-> 5], [qty |-> 3] >>), paymentMethod |-> "QRIS",
     proofUploaded |-> TRUE, proofFilename |-> "1-proof-a.png",
     location |-> Given([lat |-> 1, lng |-> 2]), timestamp |-> "2024-01-01T00:00:00Z"],
    [items |-> Given(<<>>), paymentMethod |-> Undefined,
     proofUploaded |-> FALSE, proofFilename |-> Undefined, location |-> Missing,
     timestamp |-> Undefined],
    [items |-> Missing, paymentMethod |-> "QRIS",
     proofUploaded |-> FALSE, proofFilename |-> Undefined, location |-> Missing,
     timestamp |-> Undefined] }

\* !items || !items.length
NoItems(items) == ~items.defined \/ Len(items.value) = 0

\* Number(item.qty || 1) and Number(item.price || 0), on numbers
QtyOrOne(item) == IF "qty" \in DOMAIN item /\ item.qty # 0 THEN item.qty ELSE 1

PriceOrZero(item) == IF "price" \in DOMAIN item THEN item.price ELSE 0

\* items.reduce((sum, item) => sum + f(item), 0)
RECURSIVE Reduce(_, _)
Reduce(items, byCount) ==
  IF items = <<>> THEN 0
  ELSE LET n == Len(items)
           item == items[n]
       IN  Reduce(SubSeq(items, 1, n - 1), byCount)
           + (IF byCount THEN QtyOrOne(item) ELSE QtyOrOne(item) * PriceOrZero(item))

Total(items) == Reduce(items, FALSE)

ItemCount(items) == Reduce(items, TRUE)

\* new Date().toISOString() and toLocaleString('en-US', ...) at time t
IsoStrings == <<"1970-01-01T00:00:00.001Z", "1970-01-01T00:00:00.002Z",
                "1970-01-01T00:00:00.003Z", "1970-01-01T00:00:00.004Z">>

LocaleStrings == <<"01/01/1970, 00:00 a", "01/01/1970, 00:00 b",
                   "01/01/1970, 00:00 c", "01/01/1970, 00:00 d">>

\* SELECT MAX(id) as maxId: NULL on an empty table
MaxId(table) ==
  IF DOMAIN table = {} THEN 0
  ELSE CHOOSE m \in DOMAIN table : \A k \in DOMAIN table : k <= m

\* db.getNextTransactionId: (row.maxId || 0) + 1
getNextTransactionIdOffByOne(table) == MaxId(table)

getNextTransactionIdSkipping(table) == MaxId(table) + 2

getNextTransactionId(table) == MaxId(table) + 1

\* The row db.createTransaction inserts.
TransactionRow(data) ==
  [id |-> data.id, owner |-> data.owner, items |-> JSONstringify(data.items),
   total |-> data.total, itemCount |-> data.itemCount,
   paymentMethod |-> data.paymentMethod,
   proofUploaded |-> IF data.proofUploaded THEN 1 ELSE 0,
   proofFilename |-> data.proofFilename,
   location |-> IF data.location.defined THEN JSONstringify(data.location.value)
                ELSE SqlNull,
   timestamp |-> data.timestamp, date |-> data.date]

\* The same INSERT if it replaced the stored row (INSERT OR REPLACE).
createTransactionOrReplace(table, data) ==
  Insert(table, data.id, TransactionRow(data))

\* db.createTransaction: INSERT; the PRIMARY KEY rejects an id already stored.
createTransaction(table, data) ==
  IF data.id \in DOMAIN table THEN table
  ELSE Insert(table, data.id, TransactionRow(data))

\* POST /transactions, up to the await of createTransaction: 400 without
\* items; else the owner, the totals, SELECT MAX(id), and the record to store.
TxNextId(r, body, caller) ==
  /\ Free(r)
  /\ Accept
  /\ IF NoItems(body.items)
     THEN /\ resp' = [route |-> "POST /transactions", status |-> 400]
          /\ reqs' = reqs
     ELSE LET items == body.items.value
              owner == ownerOfCreateTransaction(caller.query, caller.header, caller.cookie)
              total == Total(items)
              itemCount == ItemCount(items)
              nextId == getNextTransactionId(transactions)
              transactionData ==
                [id |-> nextId, owner |-> owner, items |-> items, total |-> total,
                 itemCount |-> itemCount,
                 paymentMethod |-> Or(body.paymentMethod, "CASH"),
                 proofUploaded |-> body.proofUploaded,
                 proofFilename |-> Or(body.proofFilename, Null),
                 location |-> body.location,
                 timestamp |-> Or(body.timestamp, IsoStrings[clock]),
                 date |-> LocaleStrings[clock]]
          IN  /\ reqs' = [reqs EXCEPT ![r] =
                   [kind |-> "transaction", pc |-> "createTransaction",
                    data |-> transactionData]]
              /\ resp' = resp
  /\ UNCHANGED <<users, products, files, uploads, transactions, clock, probe>>

\* POST /transactions: INSERT runs; the handler answers with the transaction,
\* or with 500 when the INSERT was rejected.
TxCreate(r) ==
  /\ reqs[r].kind = "transaction"
  /\ reqs[r].pc = "createTransaction"
  /\ LET data == reqs[r].data
     IN  /\ transactions' = createTransaction(transactions, data)
         /\ resp' = IF data.id \in DOMAIN transactions
                    THEN [route |-> "POST /transactions", status |-> 500]
                    ELSE [route |-> "POST /transactions", status |-> 200,
                          transaction |-> data.id]
  /\ reqs' = [reqs EXCEPT ![r] = Idle]
  /\ UNCHANGED <<users, products, files, uploads, clock, served, probe>>

\* The ids of a table, largest first (ORDER BY id DESC).
RECURSIVE Descending(_)
Descending(ids) ==
  IF ids = {} THEN <<>>
  ELSE LET m == CHOOSE x \in ids : \A y \in ids : y <= x
       IN  <<m>> \o Descending(ids \ {m})

\* db.getAllTransactions: the rows of the owner (all rows without one),
\* newest first, items and location parsed, proofUploaded as a boolean.
getAllTransactions(table, owner) ==
  LET ids == IF Truthy(owner) THEN {k \in DOMAIN table : table[k].owner = owner}
             ELSE DOMAIN table
      order == Descending(ids)
      parsed(row) ==
        [row EXCEPT !.items = JSONparse(row.items),
                    !.location = IF row.location # SqlNull
                                 THEN Given(JSONparse(row.location)) ELSE Missing,
                    !.proofUploaded = (row.proofUploaded # 0)]
  IN  [i \in 1..Len(order) |-> parsed(table[order[i]])]

\* GET /transactions
ListTransactions(caller) ==
  /\ Accept
  /\ LET username == usernameOfListTransactions(caller.query, caller.header, caller.cookie)
     IN  resp' = [route |-> "GET /transactions", username |-> username,
                  rows |-> getAllTransactions(transactions, username)]
  /\ UNCHANGED <<users, products, files, uploads, transactions, clock, reqs, probe>>

\* db.getAllProducts: the rows of the owner (all rows without one).
getAllProductsAnyCase(table, owner) ==
  LET lower(name) == IF name = "Alice" THEN "alice" ELSE name
  IN  IF Truthy(owner)
      THEN {table[k] : k \in {i \in DOMAIN table : lower(table[i].owner) = lower(owner)}}
      ELSE {table[k] : k \in DOMAIN table}

getAllProducts(table, owner) ==
  IF Truthy(owner)
  THEN {table[k] : k \in {i \in DOMAIN table : table[i].owner = owner}}
  ELSE {table[k] : k \in DOMAIN table}

\* GET /products
ListProducts(caller) ==
  /\ Accept
  /\ LET username == usernameOfListProducts(caller.query, caller.header, caller.cookie)
     IN  resp' = [route |-> "GET /products", username |-> username,
                  rows |-> getAllProducts(products, username)]
  /\ UNCHANGED <<users, products, files, uploads, transactions, clock, reqs, probe>>

\* The callers the interleavings of the ledger are explored with.
LedgerCallers ==
  { Anonymous,
    [query |-> "", header |-> Undefined,
     cookie |-> CookieHeader(<< <<"username", "alice">> >>)] }

\* The ledger under concurrent POST /transactions requests.
NextLedger ==
  \/ \E r \in Slots, body \in TxBodies, caller \in LedgerCallers :
       TxNextId(r, body, caller)
  \/ \E r \in Slots : TxCreate(r)

SpecLedger == Init /\ [][NextLedger]_vars

\* No request is in flight.
Quiet == \A r \in Slots : reqs[r] = Idle

\* The ledger when requests are served one after another.
NextLedgerSeq ==
  \/ \E r \in Slots, body \in TxBodies, caller \in LedgerCallers :
       Quiet /\ TxNextId(r, body, caller)
  \/ \E r \in Slots : TxCreate(r)

SpecLedgerSeq == Init /\ [][NextLedgerSeq]_vars

\* The bodies and callers the listings are explored with: the bodies that
\* send items; no identity, "Alice" and "alice".
ListedBodies == {body \in TxBodies : body.items.defined}

ListingCallers == {caller \in Callers : caller.query # "null"}

\* Creating and listing products and transactions, one request after another.
NextListing ==
  \/ Tick
  \/ \E body \in CreateBodies, caller \in ListingCallers, now \in 1..clock :
       Quiet /\ CreateProduct(body, FALSE, caller, now)
  \/ \E caller \in ListingCallers : Quiet /\ ListProducts(caller)
  \/ \E r \in Slots, body \in ListedBodies, caller \in ListingCallers :
       Quiet /\ TxNextId(r, body, caller)
  \/ \E r \in Slots : TxCreate(r)
  \/ \E caller \in ListingCallers : Quiet /\ ListTransactions(caller)

SpecListing == Init /\ [][NextListing]_vars

\* C3: served one after another from an empty ledger, the n-th created
\* transaction has id n, and the id a request is given is 1 on an empty
\* ledger and n + 1 after n transactions.
C3_SequentialIdsCountUp ==
  LET n == Cardinality(DOMAIN transactions)
  IN  /\ DOMAIN transactions = 1..n
      /\ \A r \in Slots :
           reqs[r].kind = "transaction" => reqs[r].data.id = n + 1

C3_ThirdRequestHoldsThree ==
  /\ DOMAIN transactions = {1, 2}
  /\ \E r \in Slots : reqs[r].kind = "transaction" /\ reqs[r].data.id = 3

\* The sum of f over a list of items.
RECURSIVE SumOver(_, _)
SumOver(items, byCount) ==
  IF items = <<>> THEN 0
  ELSE (IF byCount THEN Head(items).qty ELSE Head(items).price * Head(items).qty)
       + SumOver(Tail(items), byCount)

HasPriceAndQty(items) == \A i \in DOMAIN items : DOMAIN items[i] = {"price", "qty"}

TotalsMatchItems(row, items) ==
  HasPriceAndQty(items)
    => /\ row.total = SumOver(items, FALSE)
       /\ row.itemCount = SumOver(items, TRUE)

\* C4: every stored transaction, and every transaction a listing returns,
\* has total = the sum of price * qty over its items and itemCount = the sum
\* of qty (stated of the items that give both price and qty).
C4_TotalsAreSumsOverItems ==
  /\ \A id \in DOMAIN transactions :
       TotalsMatchItems(transactions[id], JSONparse(transactions[id].items))
  /\ resp.route = "GET /transactions"
       => \A i \in DOMAIN resp.rows : TotalsMatchItems(resp.rows[i], resp.rows[i].items)

\* C5: a listing with an owner filter returns exactly the stored rows whose
\* owner is the filter string: every returned row has that owner, and every
\* stored row with that owner is returned.
C5_FilteredListingIsExact ==
  /\ (resp.route = "GET /products" /\ resp.username # Null)
       => /\ \A row \in resp.rows : row.owner = resp.username
          /\ \A id \in DOMAIN products :
               products[id].owner = resp.username => products[id] \in resp.rows
  /\ (resp.route = "GET /transactions" /\ resp.username # Null)
       => /\ \A i \in DOMAIN resp.rows : resp.rows[i].owner = resp.username
          /\ \A id \in DOMAIN transactions :
               transactions[id].owner = resp.username
                 => \E i \in DOMAIN resp.rows : resp.rows[i].id = id

C5_AliceListedWithoutAlicesNamesake ==
  /\ resp.route = "GET /products"
  /\ resp.username = "alice"
  /\ resp.rows # {}
  /\ \E id \in DOMAIN products : products[id].owner = "Alice"

\* C10: reading the next id reserves nothing.  A request that reads the next
\* id while another request holds an id that is not stored yet is given
\* that same id, the successor of the largest stored id.
C10_ReadingAnIdReservesNothing ==
  [][\A r, s \in Slots :
       ( /\ r # s
         /\ reqs[r].kind = "transaction"
         /\ reqs[r].data.id \notin DOMAIN transactions
         /\ reqs[s] = Idle
         /\ reqs'[s] # Idle )
       => ( /\ reqs'[s].data.id = reqs[r].data.id
            /\ \A k \in DOMAIN transactions : k < reqs'[s].data.id
            /\ reqs'[s].data.id = 1 \/ reqs'[s].data.id - 1 \in DOMAIN transactions )]_vars

C10_TwoRequestsHoldTheSameId ==
  \E r, s \in Slots :
    /\ r # s
    /\ reqs[r].kind = "transaction"
    /\ reqs[s].kind = "transaction"
    /\ reqs[r].data.id = reqs[s].data.id

\* C11: under any interleaving of create-transaction requests the stored
\* transactions have pairwise distinct ids (each id keys one row, the row of
\* that id), no step changes or removes a stored row, and a request whose
\* INSERT carries an id that is already stored is answered 500 and leaves
\* the ledger exactly as it was.
C11_StoredIdsStayDistinct ==
  [][ /\ \A k \in DOMAIN transactions' : transactions'[k].id = k
      /\ \A k \in DOMAIN transactions :
           k \in DOMAIN transactions' /\ transactions'[k] = transactions[k]
      /\ \A r \in Slots :
           ( /\ reqs[r].kind = "transaction"
             /\ reqs'[r] = Idle
             /\ reqs[r].data.id \in DOMAIN transactions )
           => ( /\ transactions' = transactions
                /\ resp'.route = "POST /transactions"
                /\ resp'.status = 500 ) ]_vars

\* The later of two requests holding id 1 was answered 500; the ledger holds
\* the one row the first insert stored.
C11_SecondInsertOfAnIdAnswered500 ==
  /\ resp.route = "POST /transactions"
  /\ resp.status = 500
  /\ DOMAIN transactions = {1}
  /\ Quiet

(***************************************************************************)
(* Identity store: registration and login.                                 *)
(***************************************************************************)
Usernames == {"alice", "bob"}

\* A password field of a form; undefined when the form does not send it.
Passwords == {"pw1", "PW1", "wrong", Undefined}

Emails == {"a@x.com"}

\* db.createUser: INSERT; the PRIMARY KEY rejects a username already stored,
\* NOT NULL rejects an undefined password or email (bound as NULL).
UserRejected(table, username, password, email) ==
  username \in DOMAIN table \/ password = Undefined \/ email = Undefined

createUser(table, username, password, email) ==
  IF UserRejected(table, username, password, email) THEN table
  ELSE Insert(table, username,
              [username |-> username, password |-> password, email |-> email])

\* POST /register, up to the await of createUser: SELECT the username and
\* answer that it exists, or go on to INSERT.
RegisterFind(r, username, password, email) ==
  /\ Free(r)
  /\ Accept
  /\ LET existingUser == Select(users, username)
     IN  IF existingUser # NoRow
         THEN /\ resp' = [route |-> "POST /register", username |-> username,
                          status |-> 200, cookie |-> Undefined,
                          text |-> "Username already exists. Please choose another."]
              /\ reqs' = reqs
         ELSE /\ reqs' = [reqs EXCEPT ![r] =
                   [kind |-> "register", pc |-> "createUser", username |-> username,
                    password |-> password, email |-> email]]
              /\ resp' = resp
  /\ UNCHANGED <<users, products, files, uploads, transactions, clock, probe>>

\* POST /register: INSERT runs; the handler sets the cookie and redirects to
\* the dashboard, or answers 500 when the INSERT was rejected.
RegisterCreate(r) ==
  /\ reqs[r].kind = "register"
  /\ reqs[r].pc = "createUser"
  /\ LET q == reqs[r]
     IN  /\ users' = createUser(users, q.username, q.password, q.email)
         /\ resp' = IF UserRejected(users, q.username, q.password, q.email)
                    THEN [route |-> "POST /register", username |-> q.username,
                          status |-> 500, cookie |-> Undefined, text |-> "Server error"]
                    ELSE [route |-> "POST /register", username |-> q.username,
                          status |-> 302, cookie |-> q.username,
                          text |-> "/dashboard.html?user="]
  /\ reqs' = [reqs EXCEPT ![r] = Idle]
  /\ UNCHANGED <<products, files, uploads, transactions, clock, served, probe>>

\* user && user.password === password
passwordAcceptedForAnyUser(user, password) == user # NoRow

passwordAccepted(user, password) == user # NoRow /\ user.password = password

\* POST /login: SELECT the username; set the cookie and redirect to the
\* dashboard when the password is the stored one, else redirect to the
\* login page with the error flag.
Login(username, password) ==
  /\ Accept
  /\ LET user == Select(users, username)
     IN  resp' = IF passwordAccepted(user, password)
                 THEN [route |-> "POST /login", username |-> username,
                       password |-> password, status |-> 302, cookie |-> username,
                       location |-> "/dashboard.html?user="]
                 ELSE [route |-> "POST /login", username |-> username,
                       password |-> password, status |-> 302, cookie |-> Undefined,
                       location |-> "/?error=invalid"]
  /\ UNCHANGED <<users, products, files, uploads, transactions, clock, reqs, probe>>

NextAuth ==
  \/ \E r \in Slots, username \in Usernames, password \in Passwords, email \in Emails :
       RegisterFind(r, username, password, email)
  \/ \E r \in Slots : RegisterCreate(r)
  \/ \E username \in Usernames, password \in Passwords : Login(username, password)

SpecAuth == Init /\ [][NextAuth]_vars

\* The answer to the latest login: the cookie and the dashboard exactly when
\* the username is registered with the password supplied, else the error
\* page and no cookie.
LoginAnswered ==
  resp.route = "POST /login"
    => IF /\ resp.username \in DOMAIN users
          /\ users[resp.username].password = resp.password
       THEN resp.cookie = resp.username /\ resp.location = "/dashboard.html?user="
       ELSE resp.cookie = Undefined /\ resp.location = "/?error=invalid"

\* C8: a login for a registered username sets the identity cookie and
\* redirects to the dashboard if and only if the password supplied is the
\* stored one; any other login redirects to the error page and sets no
\* cookie; and no request changes or removes the row of a registered user.
C8_LoginNeedsTheRegisteredPassword ==
  [][/\ \A u \in DOMAIN users : u \in DOMAIN users' /\ users'[u] = users[u]
     /\ LoginAnswered']_vars

C8_AliceLoggedInWithHerPassword ==
  /\ resp.route = "POST /login"
  /\ resp.username = "alice"
  /\ resp.cookie = "alice"
  /\ "alice" \in DOMAIN users
  /\ users["alice"].password = "pw1"
  /\ resp.password = "pw1"

(***************************************************************************)
(* Identity resolution on its own: every route on every combination of     *)
(* query parameter, header and cookie header.                              *)
(***************************************************************************)
ResolveIdentity(route, query, header, cookieHeader) ==
  /\ probe' = [route |-> route, query |-> query, header |-> header,
               cookie |-> cookieHeader,
               username |-> Resolve(route, query, header, cookieHeader)]
  /\ UNCHANGED <<users, products, files, uploads, transactions, clock, reqs, served,
                 resp>>

NextResolve ==
  \E route \in IdentityRoutes, query \in ParamValues, header \in ParamValues,
     cookieHeader \in CookieHeaders :
    ResolveIdentity(route, query, header, cookieHeader)

SpecResolve == Init /\ [][NextResolve]_vars

\* The value of the username cookie of the probed request.
ProbedCookie == Field(parseCookies(probe.cookie), "username")

Supplied(value) == value # Undefined /\ value # ""

Next ==
  \/ NextCatalog
  \/ NextLedger
  \/ NextListing
  \/ NextAuth
  \/ NextResolve

Spec == Init /\ [][Next]_vars

====
